---- MODULE Spec2Model ----
(***************************************************************************)
(* processMiddleware (src/middleware/process.ts): the recursive middleware *)
(* chain of bolt-js.  One execution of processMiddleware over a chain of   *)
(* chainLen handlers and a terminal handler `last`.                        *)
(*                                                                         *)
(* Frames: frame f < chainLen is the invocation of middleware[f]; frame    *)
(* chainLen is the invocation of last().  Handlers are opaque user code:   *)
(* at each step a running handler chooses its next operation (some         *)
(* synchronous work, `await next()`, `next()` without await, an await of   *)
(* something else, a throw, or returning).  JavaScript runs a call         *)
(* synchronously up to its first await (the `stack`), and resumes a        *)
(* suspended async function only when the stack is empty.                  *)
(***************************************************************************)
EXTENDS Integers, Sequences, FiniteSets, TLC

\* Bounds of the model.
MaxChain == 3
MaxOps == 5
MaxCalls == 2

VARIABLES
    chainLen,                   \* middleware.length
    pc,                         \* "idle" before the call, "called" after
    completion,                 \* the promise processMiddleware returned
    lastCalledMiddlewareIndex,  \* the counter of line 30
    state,                      \* per frame: "idle", "run", "susp", "done"
    result,                     \* per frame: the promise of its invocation
    wait,                       \* per frame: what a suspended frame awaits
    hist,                       \* per frame: the operations it has performed
    nextResult,                 \* per frame: outcome of each next() call
    stack,                      \* frames executing synchronously, top last
    startLog,                   \* frames in the order they were started
    ops,                        \* handler operations performed so far
    ctx,                        \* per object: the handlers that wrote to it
    ctxOf,                      \* per frame: the context object it was given
    execPc,                     \* two executions: "idle" or "called"
    counterCell,                \* two executions: the counters, by cell
    execLog,                    \* two executions: frames started, in order
    execResult,                 \* two executions: outcome of each next() call
    initialArgs,                \* the initialArgs object, field by field
    bundle                      \* per handler: the object it is called with

ctxVars == <<ctx, ctxOf>>

execVars == <<execPc, counterCell, execLog, execResult>>

bundleVars == <<initialArgs, bundle>>

vars == <<chainLen, pc, completion, lastCalledMiddlewareIndex, state, result,
          wait, hist, nextResult, stack, startLog, ops, ctxVars, execVars,
          bundleVars>>

\* Two executions of processMiddleware over the same chain.
Execs == 1..2

\* A slip in line 30: the counter is declared outside processMiddleware, so
\* every execution uses the same one.
CounterShared(e) == 1

\* line 30: the counter is a local of the call, one cell per execution
CounterOf(e) == e

Frames == 0..MaxChain

\* The counter does not exist before line 30 has run.
Undeclared == -2

\* MiddlewareNextError, by its code (line 180).
DuplicateAdvance == "slack_bolt_middleware_next_error"

\* The error a frame raises by itself: one distinct error per frame.
ErrOf(f) == "handler_error_" \o ToString(f)

\* A slip in line 27: an empty chain is not recognised.
EmptyChainMissed == chainLen < 0

\* The objects a context reference can designate; object 0 is the one the
\* caller passed as `context`.
Refs == 0..MaxChain
CallerContext == 0

\* A slip in line 51: every handler gets a copy of the context ({...context}).
ContextArgCopy(toCallMiddlewareIndex) == toCallMiddlewareIndex + 1

\* line 51: the context every handler is given is the caller's object
ContextArg(toCallMiddlewareIndex) == CallerContext

\* line 27: if (middleware.length <= 0)
EmptyChain == chainLen <= 0

\* line 30: let lastCalledMiddlewareIndex = -1
InitialIndex == -1

\* A slip in line 40: > instead of >=.
IsDuplicateStrict(lastCalled, toCallMiddlewareIndex) ==
    lastCalled > toCallMiddlewareIndex

\* A slip in line 40: the counter is compared with the chain length.
IsDuplicatePastEnd(lastCalled, toCallMiddlewareIndex) ==
    lastCalled >= chainLen + 1

\* line 40: if (lastCalledMiddlewareIndex >= toCallMiddlewareIndex)
IsDuplicate(lastCalled, toCallMiddlewareIndex) ==
    lastCalled >= toCallMiddlewareIndex

\* A slip in lines 40-43: the counter is written before the throw.
CounterAfterAlways(lastCalled, toCallMiddlewareIndex) == toCallMiddlewareIndex

\* lines 40-43: the counter after invokeMiddleware(toCallMiddlewareIndex); the
\* throw of line 41 comes before the assignment of line 43.
CounterAfter(lastCalled, toCallMiddlewareIndex) ==
    IF IsDuplicate(lastCalled, toCallMiddlewareIndex)
    THEN lastCalled
    ELSE toCallMiddlewareIndex

\* line 44: if (toCallMiddlewareIndex >= middleware.length)
CallsLast(toCallMiddlewareIndex) == toCallMiddlewareIndex >= chainLen

\* lines 44-47: the function invokeMiddleware(idx) calls, as a frame
FrameOf(toCallMiddlewareIndex) ==
    IF CallsLast(toCallMiddlewareIndex) THEN chainLen ELSE toCallMiddlewareIndex

\* A slip in line 49: next() skips a handler.
NextIndexSkip(toCallMiddlewareIndex) == toCallMiddlewareIndex + 2

\* A slip in line 49: next() invokes the same index again.
NextIndexSame(toCallMiddlewareIndex) == toCallMiddlewareIndex

\* line 49: next: () => invokeMiddleware(toCallMiddlewareIndex + 1)
NextIndex(toCallMiddlewareIndex) == toCallMiddlewareIndex + 1

\* A slip in lines 45, 48: the call is made but its promise is not returned,
\* so that invokeMiddleware's own promise fulfils at once.
InvokeResultDropped(toCallMiddlewareIndex) == "ok"

\* lines 45, 48: invokeMiddleware returns the promise of the function it called
InvokeResult(toCallMiddlewareIndex) == result[FrameOf(toCallMiddlewareIndex)]

\* line 28: return last()
LastResult == result[chainLen]

\* lines 28, 57: what processMiddleware returns
Returned == IF EmptyChain THEN LastResult ELSE InvokeResult(0)

Top == stack[Len(stack)]
Pop == SubSeq(stack, 1, Len(stack) - 1)

Init ==
    /\ chainLen \in 0..MaxChain
    /\ pc = "idle"
    /\ completion = "pending"
    /\ lastCalledMiddlewareIndex = Undeclared
    /\ state = [f \in Frames |-> "idle"]
    /\ result = [f \in Frames |-> "pending"]
    /\ wait = [f \in Frames |-> "none"]
    /\ hist = [f \in Frames |-> <<>>]
    /\ nextResult = [f \in Frames |-> <<>>]
    /\ stack = <<>>
    /\ startLog = <<>>
    /\ ops = 0
    /\ ctx = [r \in Refs |-> {}]
    /\ ctxOf = [f \in Frames |-> CallerContext]
    /\ execPc = [e \in Execs |-> "idle"]
    /\ counterCell = [e \in Execs |-> Undeclared]
    /\ execLog = [e \in Execs |-> <<>>]
    /\ execResult = [e \in Execs |-> [f \in Frames |-> <<>>]]
    /\ initialArgs = <<>>
    /\ bundle = [f \in Frames |-> <<>>]

\* The handler operations, as recorded in hist.
NextOps == {"anext", "fnext"}

\* Frame f is the running function and may perform one more operation.
Running(f) ==
    /\ stack # <<>>
    /\ f = Top
    /\ state[f] = "run"

CanStep(f) == Running(f) /\ ops < MaxOps

Did(f, op) ==
    /\ hist' = [hist EXCEPT ![f] = Append(@, op)]
    /\ ops' = ops + 1

\* lines 19-30, 57: the call of processMiddleware, up to the first suspension
\* of the function it calls.
ProcessMiddleware ==
    /\ pc = "idle"
    /\ pc' = "called"
    /\ IF EmptyChain
       THEN /\ state' = [state EXCEPT ![chainLen] = "run"]
            /\ stack' = Append(stack, chainLen)
            /\ startLog' = Append(startLog, chainLen)
            /\ UNCHANGED <<lastCalledMiddlewareIndex, result>>
       ELSE IF IsDuplicate(InitialIndex, 0)
       THEN /\ lastCalledMiddlewareIndex' = CounterAfter(InitialIndex, 0)
            /\ result' = [result EXCEPT ![0] = DuplicateAdvance]
            /\ UNCHANGED <<state, stack, startLog>>
       ELSE /\ lastCalledMiddlewareIndex' = CounterAfter(InitialIndex, 0)
            /\ state' = [state EXCEPT ![FrameOf(0)] = "run"]
            /\ stack' = Append(stack, FrameOf(0))
            /\ startLog' = Append(startLog, FrameOf(0))
            /\ UNCHANGED result
    /\ UNCHANGED <<chainLen, completion, wait, hist, nextResult, ops>>

\* A handler does some synchronous work (line 89: callback1()).
Work(f) ==
    /\ CanStep(f)
    /\ Did(f, "work")
    /\ UNCHANGED <<chainLen, pc, completion, lastCalledMiddlewareIndex, state,
                   result, wait, nextResult, stack, startLog>>

\* A handler runs `await args.next()` (line 90): invokeMiddleware(f + 1) runs
\* synchronously (lines 39-54), then the handler suspends on its promise.
AwaitNext(f) ==
    /\ CanStep(f)
    /\ f < chainLen
    /\ Did(f, "anext")
    /\ LET idx == NextIndex(f) IN
       IF IsDuplicate(lastCalledMiddlewareIndex, idx)
       THEN /\ nextResult' = [nextResult EXCEPT ![f] = Append(@, DuplicateAdvance)]
            /\ wait' = [wait EXCEPT ![f] = "dup"]
            /\ state' = [state EXCEPT ![f] = "susp"]
            /\ stack' = Pop
            /\ lastCalledMiddlewareIndex' =
                   CounterAfter(lastCalledMiddlewareIndex, idx)
            /\ UNCHANGED startLog
       ELSE /\ nextResult' = [nextResult EXCEPT ![f] = Append(@, "started")]
            /\ wait' = [wait EXCEPT ![f] = "next"]
            /\ lastCalledMiddlewareIndex' =
                   CounterAfter(lastCalledMiddlewareIndex, idx)
            /\ state' = [state EXCEPT ![f] = "susp", ![FrameOf(idx)] = "run"]
            /\ stack' = Append(Pop, FrameOf(idx))
            /\ startLog' = Append(startLog, FrameOf(idx))
    /\ UNCHANGED <<chainLen, pc, completion, result>>

\* A handler runs `args.next()` without awaiting it (line 142):
\* invokeMiddleware(f + 1) runs synchronously, then the handler goes on.
ForgetNext(f) ==
    /\ CanStep(f)
    /\ f < chainLen
    /\ Did(f, "fnext")
    /\ LET idx == NextIndex(f) IN
       IF IsDuplicate(lastCalledMiddlewareIndex, idx)
       THEN /\ nextResult' = [nextResult EXCEPT ![f] = Append(@, DuplicateAdvance)]
            /\ lastCalledMiddlewareIndex' =
                   CounterAfter(lastCalledMiddlewareIndex, idx)
            /\ UNCHANGED <<state, stack, startLog>>
       ELSE /\ nextResult' = [nextResult EXCEPT ![f] = Append(@, "started")]
            /\ lastCalledMiddlewareIndex' =
                   CounterAfter(lastCalledMiddlewareIndex, idx)
            /\ state' = [state EXCEPT ![FrameOf(idx)] = "run"]
            /\ stack' = Append(stack, FrameOf(idx))
            /\ startLog' = Append(startLog, FrameOf(idx))
    /\ UNCHANGED <<chainLen, pc, completion, result, wait>>

\* A handler or last() awaits something else (line 141: await callback2()).
AwaitOther(f) ==
    /\ CanStep(f)
    /\ Did(f, "aext")
    /\ wait' = [wait EXCEPT ![f] = "ext"]
    /\ state' = [state EXCEPT ![f] = "susp"]
    /\ stack' = Pop
    /\ UNCHANGED <<chainLen, pc, completion, lastCalledMiddlewareIndex, result,
                   nextResult, startLog>>

\* A handler or last() throws: its promise rejects with its own error.
Throw(f) ==
    /\ CanStep(f)
    /\ Did(f, "throw")
    /\ result' = [result EXCEPT ![f] = ErrOf(f)]
    /\ state' = [state EXCEPT ![f] = "done"]
    /\ stack' = Pop
    /\ UNCHANGED <<chainLen, pc, completion, lastCalledMiddlewareIndex, wait,
                   nextResult, startLog>>

\* A handler or last() reaches its end (line 91): its promise fulfils.
Return(f) ==
    /\ Running(f)
    /\ result' = [result EXCEPT ![f] = "ok"]
    /\ state' = [state EXCEPT ![f] = "done"]
    /\ stack' = Pop
    /\ UNCHANGED <<chainLen, pc, completion, lastCalledMiddlewareIndex, wait,
                   hist, nextResult, startLog, ops>>

\* The promise frame f awaits.
Awaited(f) ==
    CASE wait[f] = "next" -> InvokeResult(NextIndex(f))
      [] wait[f] = "dup" -> DuplicateAdvance
      [] wait[f] = "never" -> "pending"
      [] OTHER -> "ok"

\* A suspended frame continues after its await, once nothing else runs: it
\* goes on when the awaited promise fulfilled, and rejects with the awaited
\* promise's error when that one rejected.
Resume(f) ==
    /\ stack = <<>>
    /\ state[f] = "susp"
    /\ Awaited(f) # "pending"
    /\ wait' = [wait EXCEPT ![f] = "none"]
    /\ IF Awaited(f) = "ok"
       THEN /\ state' = [state EXCEPT ![f] = "run"]
            /\ stack' = <<f>>
            /\ UNCHANGED result
       ELSE /\ state' = [state EXCEPT ![f] = "done"]
            /\ result' = [result EXCEPT ![f] = Awaited(f)]
            /\ UNCHANGED stack
    /\ UNCHANGED <<chainLen, pc, completion, lastCalledMiddlewareIndex, hist,
                   nextResult, startLog, ops>>

\* lines 28, 57: the promise processMiddleware returned settles as the promise
\* it returned from its body.
Settle ==
    /\ pc = "called"
    /\ stack = <<>>
    /\ completion = "pending"
    /\ Returned # "pending"
    /\ completion' = Returned
    /\ UNCHANGED <<chainLen, pc, lastCalledMiddlewareIndex, state, result, wait,
                   hist, nextResult, stack, startLog, ops>>

\* The parts of the state the chain itself does not involve.
Apart == UNCHANGED <<ctxVars, execVars, bundleVars>>

Next ==
    \/ ProcessMiddleware /\ Apart
    \/ \E f \in Frames : Work(f) /\ Apart
    \/ \E f \in Frames : AwaitNext(f) /\ Apart
    \/ \E f \in Frames : ForgetNext(f) /\ Apart
    \/ \E f \in Frames : AwaitOther(f) /\ Apart
    \/ \E f \in Frames : Throw(f) /\ Apart
    \/ \E f \in Frames : Return(f) /\ Apart
    \/ \E f \in Frames : Resume(f) /\ Apart
    \/ Settle /\ Apart

Spec == Init /\ [][Next]_vars

\* A handler or last() awaits a promise that never settles.
Hang(f) ==
    /\ CanStep(f)
    /\ Did(f, "hang")
    /\ wait' = [wait EXCEPT ![f] = "never"]
    /\ state' = [state EXCEPT ![f] = "susp"]
    /\ stack' = Pop
    /\ UNCHANGED <<chainLen, pc, completion, lastCalledMiddlewareIndex, result,
                   nextResult, startLog>>

NextHang ==
    \/ Next
    \/ \E f \in Frames : Hang(f) /\ Apart

\* The event loop runs every continuation that is ready (Resume, Settle), the
\* caller makes its call, and a function that is running and is not at an
\* await reaches its end.
Fairness ==
    /\ WF_vars(ProcessMiddleware /\ Apart)
    /\ WF_vars(Settle /\ Apart)
    /\ \A f \in Frames :
          WF_vars(Resume(f) /\ Apart) /\ WF_vars(Return(f) /\ Apart)

FairSpec == Init /\ [][NextHang]_vars /\ Fairness

----------------------------------------------------------------------------
\* The shared context (lines 22, 51).

\* A handler or last() writes to the context object it holds.
CtxWrite(f) ==
    /\ CanStep(f)
    /\ Did(f, "cwrite")
    /\ ctx' = [ctx EXCEPT ![ctxOf[f]] = @ \cup {f}]
    /\ UNCHANGED <<chainLen, pc, completion, lastCalledMiddlewareIndex, state,
                   result, wait, nextResult, stack, startLog, ctxOf, execVars,
                   bundleVars>>

\* lines 48-54: a handler that is started is given ContextArg as its context,
\* holding what the caller's object holds; last() takes no argument and
\* uses the caller's object.
PassContext ==
    IF Len(startLog') > Len(startLog) /\ startLog'[Len(startLog')] < chainLen
    THEN LET g == startLog'[Len(startLog')] IN
         /\ ctxOf' = [ctxOf EXCEPT ![g] = ContextArg(g)]
         /\ ctx' = [ctx EXCEPT ![ContextArg(g)] = ctx[CallerContext]]
         /\ UNCHANGED <<execVars, bundleVars>>
    ELSE UNCHANGED <<ctxVars, execVars, bundleVars>>

NextCtx ==
    \/ ProcessMiddleware /\ PassContext
    \/ \E f \in Frames : Work(f) /\ PassContext
    \/ \E f \in Frames : AwaitNext(f) /\ PassContext
    \/ \E f \in Frames : ForgetNext(f) /\ PassContext
    \/ \E f \in Frames : AwaitOther(f) /\ PassContext
    \/ \E f \in Frames : Throw(f) /\ PassContext
    \/ \E f \in Frames : Return(f) /\ PassContext
    \/ \E f \in Frames : Resume(f) /\ PassContext
    \/ Settle /\ PassContext
    \/ \E f \in Frames : CtxWrite(f)

SpecCtx == Init /\ [][NextCtx]_vars

----------------------------------------------------------------------------
\* Two executions over the same chain, interleaved between their next()
\* calls.  Of a handler only its next() calls matter here: a started handler
\* may call its next() at any moment.

chainVars == <<pc, completion, lastCalledMiddlewareIndex, state, result, wait,
               hist, nextResult, stack, startLog, ops>>

\* lines 27-30, 57: execution e is called.
Begin(e) ==
    /\ execPc[e] = "idle"
    /\ execPc' = [execPc EXCEPT ![e] = "called"]
    /\ IF EmptyChain
       THEN /\ execLog' = [execLog EXCEPT ![e] = Append(@, chainLen)]
            /\ UNCHANGED counterCell
       ELSE /\ counterCell' = [counterCell EXCEPT
                                 ![CounterOf(e)] = CounterAfter(InitialIndex, 0)]
            /\ execLog' = IF IsDuplicate(InitialIndex, 0)
                          THEN execLog
                          ELSE [execLog EXCEPT ![e] = Append(@, FrameOf(0))]
    /\ UNCHANGED <<chainLen, chainVars, ctxVars, bundleVars, execResult>>

\* lines 39-49: handler f of execution e calls its next().
Advance(e, f) ==
    /\ f < chainLen
    /\ \E k \in 1..Len(execLog[e]) : execLog[e][k] = f
    /\ Len(execResult[e][f]) < MaxCalls
    /\ LET idx == NextIndex(f)
           counter == counterCell[CounterOf(e)]
       IN /\ counterCell' = [counterCell EXCEPT
                                ![CounterOf(e)] = CounterAfter(counter, idx)]
          /\ IF IsDuplicate(counter, idx)
             THEN /\ execResult' = [execResult EXCEPT
                                      ![e][f] = Append(@, DuplicateAdvance)]
                  /\ UNCHANGED execLog
             ELSE /\ execResult' = [execResult EXCEPT
                                      ![e][f] = Append(@, "started")]
                  /\ execLog' = [execLog EXCEPT ![e] = Append(@, FrameOf(idx))]
    /\ UNCHANGED <<chainLen, chainVars, ctxVars, bundleVars, execPc>>

NextTwo ==
    \/ \E e \in Execs : Begin(e)
    \/ \E e \in Execs : \E f \in Frames : Advance(e, f)

SpecTwo == Init /\ [][NextTwo]_vars

----------------------------------------------------------------------------
\* The object a handler is called with (lines 48-54).  An object is a
\* function from its field names to its values.

\* The field names initialArgs may carry.
ArgFields == {"payload", "say", "next", "context", "client", "logger"}

\* The value initialArgs holds in field k.
ArgValue(k) == "initialArgs." \o k

\* The initialArgs object that carries the fields S.
ArgsWith(S) == [k \in S |-> ArgValue(k)]

\* line 49: the next() of handler i
Capability(i) == "invokeMiddleware(" \o ToString(NextIndex(i)) \o ")"

\* lines 22-24: the context, client and logger passed to processMiddleware
ContextParam == "context"
ClientParam == "client"
LoggerParam == "logger"

\* An object literal: a field written later replaces one written earlier.
Merge(a, b) ==
    [k \in (DOMAIN a) \cup (DOMAIN b) |-> IF k \in DOMAIN b THEN b[k] ELSE a[k]]

Field(k, v) == [n \in {k} |-> v]

\* lines 48-54: { next: ..., ...initialArgs, context, client, logger }
MakeBundle(i, args) ==
    Merge(Merge(Merge(Merge(Field("next", Capability(i)),
                            args),
                      Field("context", ContextParam)),
                Field("client", ClientParam)),
          Field("logger", LoggerParam))

Built(f) == "logger" \in DOMAIN bundle[f]

\* lines 47-54: handler i is called, with the initialArgs of the execution.
BuildBundle(i, S) ==
    /\ i < chainLen
    /\ ~Built(i)
    /\ (\E f \in Frames : Built(f)) => DOMAIN initialArgs = S
    /\ initialArgs' = ArgsWith(S)
    /\ bundle' = [bundle EXCEPT ![i] = MakeBundle(i, ArgsWith(S))]
    /\ UNCHANGED <<chainLen, chainVars, ctxVars, execVars>>

NextBundle == \E i \in Frames : \E S \in SUBSET ArgFields : BuildBundle(i, S)

SpecBundle == Init /\ [][NextBundle]_vars

----------------------------------------------------------------------------
\* Vocabulary of the properties.

Range(seq) == {seq[k] : k \in 1..Len(seq)}
Count(seq, S) == Cardinality({k \in 1..Len(seq) : seq[k] \in S})
Last(seq) == seq[Len(seq)]

Started(f) == state[f] # "idle"
Done(f) == state[f] = "done"
Failed(f) == Done(f) /\ result[f] # "ok"
Settled == completion # "pending"
Handlers == {f \in Frames : f < chainLen}

\* The number of next() calls frame f has made.
Calls(f) == Count(hist[f], NextOps)

\* The first next() call of frame f, "none" when it has made none.
FirstNextOp(f) ==
    LET calls == SelectSeq(hist[f], LAMBDA op : op \in NextOps)
    IN IF calls = <<>> THEN "none" ELSE calls[1]

\* Frame f awaits next() exactly once and never calls it otherwise.
AwaitsOnce(f) ==
    Count(hist[f], {"anext"}) = 1 /\ Count(hist[f], {"fnext"}) = 0

\* The frames 0, 1, ..., n in order: the handlers, then last().
UpTo(n) == [k \in 1..(n + 1) |-> k - 1]

NoFailure == \A f \in Frames : result[f] \in {"pending", "ok"}

----------------------------------------------------------------------------
\* C1: in a chain of n >= 1 handlers that each await next() exactly once,
\* with no failure, once the completion has resolved successfully the
\* handlers 0..n-1 have been started in index order, each exactly once, and
\* then last() exactly once.
C1_SequentialOrder ==
    ( /\ chainLen >= 1
      /\ completion = "ok"
      /\ NoFailure
      /\ \A f \in Handlers : Started(f) => AwaitsOnce(f) )
    => startLog = UpTo(chainLen)

C1_Witness ==
    /\ chainLen = 3
    /\ completion = "ok"
    /\ \A f \in Handlers : AwaitsOnce(f)
    /\ startLog = <<0, 1, 2, 3>>

\* C2: a next() capability succeeds at most once: every call of it after the
\* first gets the DuplicateAdvance error, starts no handler and no last(),
\* and leaves the counter alone.
C2_AtMostOnce ==
    [][\A f \in Frames :
         /\ Count(nextResult'[f], {"started"}) <= 1
         /\ ( Len(nextResult'[f]) > Len(nextResult[f]) /\ Len(nextResult[f]) >= 1 )
            => /\ Last(nextResult'[f]) = DuplicateAdvance
               /\ startLog' = startLog
               /\ lastCalledMiddlewareIndex' = lastCalledMiddlewareIndex
               /\ \A g \in Frames : g # f => state'[g] = state[g]]_vars

\* Handler 0 called next() twice in a row without awaiting the first call;
\* handler 1 awaited next() again after last() had run.
C2_Witness ==
    /\ chainLen = 2
    /\ hist[0] = <<"fnext", "fnext">>
    /\ nextResult[0] = <<"started", DuplicateAdvance>>
    /\ hist[1] = <<"anext", "anext">>
    /\ nextResult[1] = <<"started", DuplicateAdvance>>
    /\ Done(2)

\* C3: a one-handler chain whose handler runs `await next(); work; await
\* next(); ...`: the second call gets the DuplicateAdvance error, last() has
\* run exactly once, the handler performs nothing after the second call, and
\* the handler's promise and the completion reject with DuplicateAdvance.
C3_DuplicateAdvance ==
    ( /\ chainLen = 1
      /\ Len(hist[0]) >= 3
      /\ SubSeq(hist[0], 1, 3) = <<"anext", "work", "anext">> )
    => /\ nextResult[0] = <<"started", DuplicateAdvance>>
       /\ startLog = <<0, 1>>
       /\ result[1] = "ok"
       /\ hist[0] = <<"anext", "work", "anext">>
       /\ state[0] \in {"susp", "done"}
       /\ Done(0) => result[0] = DuplicateAdvance
       /\ Settled => completion = DuplicateAdvance

C3_Witness ==
    /\ chainLen = 1
    /\ hist[0] = <<"anext", "work", "anext">>
    /\ ops < MaxOps
    /\ completion = DuplicateAdvance

\* C4 as stated: whatever the later handlers do, a handler that runs again
\* after its `await next()` finds every later started frame completed.
C4_AsStated ==
    \A f \in Frames :
        ( state[f] = "run" /\ "anext" \in Range(hist[f]) )
        => \A g \in Frames : (g > f /\ Started(g)) => Done(g)

\* C4, amended: when no later handler has called next() without awaiting it,
\* a handler that runs again after its `await next()` finds every later
\* started frame completed.
C4_NestedUnwind ==
    \A f \in Frames :
        ( /\ state[f] = "run"
          /\ "anext" \in Range(hist[f])
          /\ \A g \in Frames : g > f => "fnext" \notin Range(hist[g]) )
        => \A g \in Frames : (g > f /\ Started(g)) => Done(g)

\* Handler 0 runs its `after` part once handler 1, which had its own `after`
\* part, and last() are done.
C4_Witness ==
    /\ chainLen = 2
    /\ state[0] = "run"
    /\ hist[0] = <<"anext">>
    /\ hist[1] = <<"anext", "work">>
    /\ Done(1) /\ Done(2)

\* C5: once handler k is done without having called next(), no later handler
\* and no last() has been started; and when every handler before k awaits
\* next() once, the completion is k's failure if k failed, and otherwise
\* success or the failure of a handler before k.
C5_ShortCircuit ==
    \A k \in Handlers :
        ( Done(k) /\ Calls(k) = 0 )
        => /\ \A g \in Frames : g > k => (~Started(g) /\ g \notin Range(startLog))
           /\ lastCalledMiddlewareIndex = k
           /\ ( Settled /\ \A j \in Handlers : j < k => AwaitsOnce(j) )
              => IF result[k] # "ok"
                 THEN completion = result[k]
                 ELSE completion \in {"ok"} \cup {ErrOf(j) : j \in 0..(k - 1)}

C5_Witness ==
    /\ chainLen = 3
    /\ hist[0] = <<"anext">>
    /\ Done(1) /\ Calls(1) = 0 /\ result[1] = "ok"
    /\ completion = "ok"
    /\ startLog = <<0, 1>>

\* C6: with an empty chain last() is started exactly once, nothing else is,
\* the counter is never created, and the completion is last()'s outcome.
C6_EmptyChain ==
    ( chainLen = 0 /\ pc = "called" )
    => /\ startLog = <<0>>
       /\ lastCalledMiddlewareIndex = Undeclared
       /\ \A f \in Frames : f # 0 => state[f] = "idle"
       /\ Settled => (Done(0) /\ completion = result[0])

C6_Witness ==
    /\ chainLen = 0
    /\ hist[0] = <<"aext", "throw">>
    /\ completion = ErrOf(0)

\* No frame has thrown an error of its own.
NoThrow == \A f \in Frames : "throw" \notin Range(hist[f])

\* C7 as stated: a handler called next() without awaiting it, a later handler
\* failed with the DuplicateAdvance error, no frame threw anything else, and
\* the completion, once settled with every started frame done, is that error.
C7_AsStated ==
    ( /\ Settled
      /\ NoThrow
      /\ \A f \in Frames : Started(f) => Done(f)
      /\ \E f \in Handlers : \E g \in Handlers :
            /\ f < g
            /\ FirstNextOp(f) = "fnext"
            /\ result[g] = DuplicateAdvance )
    => completion = DuplicateAdvance

\* C7, amended: the DuplicateAdvance failure of a handler is the failure of
\* the completion when every handler before it awaited its next() call; a
\* handler that only calls next() without awaiting it never fails with an
\* error of a later frame, it completes with its own outcome.
C7_DuplicateReachesCompletion ==
    /\ \A g \in Handlers :
          ( /\ result[g] = DuplicateAdvance
            /\ \A f \in Handlers : f < g => FirstNextOp(f) = "anext" )
          => /\ completion \in {"pending", DuplicateAdvance}
             /\ \A f \in Handlers : (f < g /\ Done(f)) => result[f] = DuplicateAdvance
    /\ \A f \in Handlers :
          ( Done(f) /\ "anext" \notin Range(hist[f]) )
          => result[f] \in {"ok", ErrOf(f)}

C7_Witness ==
    /\ chainLen = 2
    /\ hist[0] = <<"anext">>
    /\ hist[1] = <<"anext", "anext">>
    /\ result[1] = DuplicateAdvance
    /\ completion = DuplicateAdvance

\* C8 as stated: once the completion of a non-empty chain has settled (no
\* frame having thrown), no started frame is unfinished.
C8_AsStated ==
    ( chainLen >= 1 /\ Settled /\ NoThrow ) => \A f \in Frames : Started(f) => Done(f)

\* No handler has called next() without awaiting it.
NoForget == \A f \in Frames : "fnext" \notin Range(hist[f])

\* C8, amended: when every next() call made is awaited, then once the
\* completion of a non-empty chain has settled every started frame is done,
\* and no frame is started afterwards.
C8_SettlesLast ==
    [][( chainLen >= 1 /\ completion' # "pending" /\ NoForget' )
       => /\ \A f \in Frames : Started(f)' => Done(f)'
          /\ Settled => startLog' = startLog]_vars

C8_Witness ==
    /\ chainLen = 3
    /\ Settled
    /\ NoForget
    /\ startLog = <<0, 1, 2, 3>>
    /\ "aext" \in Range(hist[3])
    /\ \A f \in Frames : Done(f)

\* C9 as stated: the failure of a frame (the only frame that threw, and no
\* DuplicateAdvance error around) is the failure of the completion, once
\* that has settled and every started frame is done.
C9_AsStated ==
    \A f \in Frames :
        ( /\ Failed(f)
          /\ Settled
          /\ \A g \in Frames : Started(g) => Done(g)
          /\ \A g \in Frames : g # f => "throw" \notin Range(hist[g])
          /\ \A g \in Frames : DuplicateAdvance \notin Range(nextResult[g]) )
        => completion = result[f]

\* C9, amended: the failure of a frame is, unmodified, the failure of the
\* completion when every handler before that frame awaited its next() call;
\* and when a handler fails without having called next(), no later handler
\* and no last() is ever started.
C9_FailurePropagates ==
    \A f \in Frames :
        /\ ( /\ Failed(f)
             /\ \A j \in Handlers : j < f => FirstNextOp(j) = "anext" )
           => /\ completion \in {"pending", result[f]}
              /\ \A j \in Handlers : (j < f /\ Done(j)) => result[j] = result[f]
        /\ ( Failed(f) /\ Calls(f) = 0 )
           => \A g \in Frames : g > f => ~Started(g)

\* last() threw after an await; its error is the completion's.
C9_Witness ==
    /\ chainLen = 2
    /\ hist[2] = <<"aext", "throw">>
    /\ result[2] = ErrOf(2)
    /\ completion = ErrOf(2)

\* C10 as stated: a call of the next() of handler f gets the DuplicateAdvance
\* error whenever f <= lastCalledMiddlewareIndex at the call.
C10_AsStated ==
    [][\A f \in Handlers :
         ( /\ Len(nextResult'[f]) = Len(nextResult[f]) + 1
           /\ f <= lastCalledMiddlewareIndex )
         => Last(nextResult'[f]) = DuplicateAdvance]_vars

\* C10, amended: a call of the next() of handler f gets the DuplicateAdvance
\* error whenever f < lastCalledMiddlewareIndex at the call, and succeeds
\* when f = lastCalledMiddlewareIndex.
C10_DuplicateCheck ==
    [][\A f \in Handlers :
         Len(nextResult'[f]) = Len(nextResult[f]) + 1
         => /\ f < lastCalledMiddlewareIndex
               => Last(nextResult'[f]) = DuplicateAdvance
            /\ f = lastCalledMiddlewareIndex
               => Last(nextResult'[f]) = "started"]_vars

\* Handler 0 calls next() again when the chain has advanced to last().
C10_Witness ==
    /\ chainLen = 3
    /\ lastCalledMiddlewareIndex = 3
    /\ nextResult[0] = <<"started", DuplicateAdvance>>

\* Frame f performs a step of its own: an operation, or its return.
StepOf(f) ==
    \/ hist'[f] # hist[f]
    \/ state[f] = "run" /\ state'[f] = "done"

\* Frame f has work it can do without waiting for a later frame.
Active(f) ==
    \/ state[f] = "run"
    \/ state[f] = "susp" /\ wait[f] # "next"

\* C11 as stated: once handler f + 1 has been started, handler f performs no
\* step while a later started frame is unfinished.
C11_AsStated ==
    [][\A f \in Handlers :
         ( Started(f + 1) /\ StepOf(f) )
         => \A g \in Frames : (g > f /\ Started(g)) => Done(g)]_vars

\* C11, amended: when handler f and the later handlers await every next()
\* call they make, handler f performs no step between the start of handler
\* f + 1 and the completion of every later started frame; and when no
\* handler at all calls next() without awaiting it, at most one frame at a
\* time has work it can do.
C11_OneAtATime ==
    [][/\ \A f \in Handlers :
            ( /\ Started(f + 1)
              /\ StepOf(f)
              /\ \A g \in Frames : g >= f => "fnext" \notin Range(hist'[g]) )
            => \A g \in Frames : (g > f /\ Started(g)) => Done(g)
       /\ NoForget' => Cardinality({f \in Frames : Active(f)'}) <= 1]_vars

\* Handler 0 goes on after handler 1, which had suspended on an await of its
\* own, and last() are done.
C11_Witness ==
    /\ chainLen = 2
    /\ hist[0] = <<"anext", "work">>
    /\ hist[1] = <<"aext", "anext">>
    /\ "aext" \in Range(hist[2])
    /\ Done(1) /\ Done(2)

\* Handler f awaited next(), every later frame up to last() completed
\* successfully, and then f threw.
ThrewAfterSuccess(f) ==
    /\ Done(f)
    /\ result[f] = ErrOf(f)
    /\ FirstNextOp(f) = "anext"
    /\ \A g \in Frames : (g > f /\ g <= chainLen) => (Done(g) /\ result[g] = "ok")

\* C13 as stated: whichever handler it is that threw after its awaited
\* downstream chain succeeded, the completion, once settled with every
\* frame done, is that failure.
C13_AsStated ==
    \A f \in Handlers :
        ( /\ ThrewAfterSuccess(f)
          /\ Settled
          /\ \A g \in Frames : Started(g) => Done(g)
          /\ \A g \in Frames : g # f => "throw" \notin Range(hist[g]) )
        => completion = ErrOf(f)

\* C13, amended: when a handler threw after its awaited downstream chain
\* succeeded and every handler before it awaited its next() call, the
\* completion is that failure and so is the outcome of every handler before
\* it, and last() has been started exactly once.
C13_LateFailureWins ==
    \A f \in Handlers :
        ( /\ ThrewAfterSuccess(f)
          /\ \A j \in Handlers : j < f => FirstNextOp(j) = "anext" )
        => /\ completion \in {"pending", ErrOf(f)}
           /\ \A j \in Handlers : (j < f /\ Done(j)) => result[j] = ErrOf(f)
           /\ Count(startLog, {chainLen}) = 1

C13_Witness ==
    /\ chainLen = 2
    /\ hist[0] = <<"anext">>
    /\ hist[1] = <<"anext", "throw">>
    /\ result[2] = "ok"
    /\ completion = ErrOf(1)

\* C15: in a non-empty chain frame g >= 1 is started only by the step in
\* which handler g - 1 makes a successful next() call, and a successful
\* next() call of handler f starts frame f + 1 in that same step, leaving
\* it running on top of the stack before f does anything else.
C15_StartOnAdvance ==
    [][/\ \A g \in Frames :
            ( g >= 1 /\ Count(startLog', {g}) > Count(startLog, {g}) )
            => nextResult'[g - 1] = Append(nextResult[g - 1], "started")
       /\ \A f \in Handlers :
            nextResult'[f] = Append(nextResult[f], "started")
            => /\ startLog' = Append(startLog, f + 1)
               /\ state'[f + 1] = "run"
               /\ stack'[Len(stack')] = f + 1
               /\ hist'[f + 1] = <<>>]_vars

\* Handler 1 is running, started by a next() call handler 0 does not await.
C15_Witness ==
    /\ chainLen = 2
    /\ hist[0] = <<"work", "fnext">>
    /\ stack = <<0, 1>>
    /\ startLog = <<0, 1>>

\* C16: after the call with a chain of n >= 1 handlers the counter is in
\* -1..n, a step changes it only by adding one and exactly when a next()
\* call succeeds, and the frames started are 0..counter in order, each once
\* (so last(), frame n, is started exactly when the counter is n).
C16_CounterInvariant ==
    [][( chainLen' >= 1 /\ pc' = "called" )
       => /\ lastCalledMiddlewareIndex' \in -1..chainLen
          /\ startLog' = UpTo(lastCalledMiddlewareIndex')
          /\ (chainLen \in Range(startLog')) <=> (lastCalledMiddlewareIndex' = chainLen)
          /\ pc = "called"
             => /\ lastCalledMiddlewareIndex' \in
                      {lastCalledMiddlewareIndex, lastCalledMiddlewareIndex + 1}
                /\ (lastCalledMiddlewareIndex' = lastCalledMiddlewareIndex + 1)
                   <=> \E f \in Handlers :
                         nextResult'[f] = Append(nextResult[f], "started")]_vars

C16_Witness ==
    /\ chainLen = 3
    /\ lastCalledMiddlewareIndex = 3
    /\ startLog = <<0, 1, 2, 3>>
    /\ \E f \in Handlers : DuplicateAdvance \in Range(nextResult[f])
    /\ \A f \in Frames : Done(f)

\* C18: the first call of a next() capability is made with the counter at
\* the handler's own index, succeeds and starts the next frame; a call gets
\* the DuplicateAdvance error exactly when the capability was called before.
C18_FirstCallSucceeds ==
    [][\A f \in Handlers :
         Len(nextResult'[f]) = Len(nextResult[f]) + 1
         => /\ nextResult[f] = <<>>
               => /\ lastCalledMiddlewareIndex = f
                  /\ nextResult'[f] = <<"started">>
                  /\ startLog' = Append(startLog, f + 1)
            /\ (Last(nextResult'[f]) = DuplicateAdvance) <=> (nextResult[f] # <<>>)]_vars

\* Every handler of the chain made its first call, awaited or not.
C18_Witness ==
    /\ chainLen = 3
    /\ hist[0] = <<"fnext">>
    /\ hist[1] = <<"aext", "anext">>
    /\ "fnext" \in Range(hist[2])
    /\ \A f \in Handlers : nextResult[f] = <<"started">>

\* C17: a next() call that gets the DuplicateAdvance error changes neither
\* the counter, nor the frames started, nor any other frame or promise; and
\* a first next() call made when some call has already failed still
\* succeeds.
C17_FailedCallNoEffect ==
    [][\A f \in Handlers :
         /\ nextResult'[f] = Append(nextResult[f], DuplicateAdvance)
            => /\ lastCalledMiddlewareIndex' = lastCalledMiddlewareIndex
               /\ startLog' = startLog
               /\ result' = result
               /\ \A g \in Frames :
                     g # f => /\ state'[g] = state[g]
                              /\ hist'[g] = hist[g]
                              /\ nextResult'[g] = nextResult[g]
         /\ ( /\ Len(nextResult'[f]) = 1
              /\ nextResult[f] = <<>>
              /\ \E g \in Handlers : DuplicateAdvance \in Range(nextResult[g]) )
            => /\ nextResult'[f] = <<"started">>
               /\ startLog' = Append(startLog, f + 1)]_vars

\* Handler 1 made its first call after handler 0's second call had failed.
C17_Witness ==
    /\ chainLen = 2
    /\ hist[0] = <<"fnext", "fnext">>
    /\ nextResult[0] = <<"started", DuplicateAdvance>>
    /\ hist[1] = <<"aext", "fnext">>
    /\ nextResult[1] = <<"started">>
    /\ startLog = <<0, 1, 2>>

\* Frame f is suspended for ever on a promise that never settles.
Hung(f) == state[f] = "susp" /\ wait[f] = "never"

\* C14 as stated: while a started handler that never called next() is hung,
\* the completion is not settled.
C14_AsStated ==
    \A f \in Handlers : (Hung(f) /\ Calls(f) = 0) => ~Settled

\* C14, amended: while a started handler that never called next() is hung
\* and every handler before it awaited its next() call, the completion is
\* not settled; and in every fair behaviour in which no next() call is left
\* unawaited and no frame hangs, the completion eventually settles.
C14_CompletionLiveness ==
    /\ [](\A f \in Handlers :
            ( /\ Hung(f)
              /\ Calls(f) = 0
              /\ \A j \in Handlers : j < f => FirstNextOp(j) = "anext" )
            => ~Settled)
    /\ <>(Settled \/ ~NoForget \/ \E f \in Frames : Hung(f))

\* Handler 1 hangs behind handler 0, which awaits it; nothing can run.
C14_Witness ==
    /\ chainLen = 2
    /\ hist[0] = <<"work", "anext">>
    /\ hist[1] = <<"aext", "hang">>
    /\ Hung(1)
    /\ stack = <<>>
    /\ ~Settled

\* Handler f wrote to the context before its first next() call.
WroteBeforeAdvance(f) ==
    \E k \in 1..Len(hist[f]) :
        /\ hist[f][k] = "cwrite"
        /\ \A m \in 1..(k - 1) : hist[f][m] \notin NextOps

\* C19: every started frame holds the caller's context object; what a
\* handler wrote before calling next() is in the object every later started
\* frame holds; and the context changes only by the write of a frame, the
\* chain never changes.
C19_SharedContext ==
    [][/\ \A g \in Frames : Started(g)' => ctxOf'[g] = CallerContext
       /\ \A f \in Handlers : \A g \in Frames :
            ( f < g /\ Started(g)' /\ WroteBeforeAdvance(f)' )
            => f \in ctx'[ctxOf'[g]]
       /\ ctx' # ctx
          => \E f \in Frames :
                /\ hist'[f] = Append(hist[f], "cwrite")
                /\ ctx' = [ctx EXCEPT ![ctxOf[f]] = @ \cup {f}]
       /\ chainLen' = chainLen]_vars

\* Handlers 0 and 1 both wrote before advancing, and last() has started.
C19_Witness ==
    /\ chainLen = 2
    /\ hist[0] = <<"cwrite", "anext">>
    /\ hist[1] = <<"cwrite", "fnext">>
    /\ Started(2)
    /\ ctx[ctxOf[2]] = {0, 1}

\* seq is an initial part of the frames 0, 1, ..., n.
StartsInOrder(seq, n) ==
    /\ Len(seq) <= n + 1
    /\ \A k \in 1..Len(seq) : seq[k] = k - 1

\* C12: with two executions over the same chain, interleaved in any order, a
\* next() call in an execution gets the DuplicateAdvance error exactly when
\* that capability was called before in that same execution, it leaves the
\* other execution's counter, starts and outcomes alone, and each execution
\* starts its frames 0, 1, ... in order with its counter at the last one,
\* as it does alone.
C12_Independent ==
    [][\A e \in Execs :
         /\ \A f \in Handlers :
              Len(execResult'[e][f]) = Len(execResult[e][f]) + 1
              => /\ (Last(execResult'[e][f]) = DuplicateAdvance)
                    <=> (execResult[e][f] # <<>>)
                 /\ \A o \in Execs \ {e} :
                       /\ counterCell'[CounterOf(o)] = counterCell[CounterOf(o)]
                       /\ execLog'[o] = execLog[o]
                       /\ execResult'[o] = execResult[o]
         /\ StartsInOrder(execLog'[e], chainLen)
         /\ ( chainLen >= 1 /\ execPc'[e] = "called" )
            => counterCell'[CounterOf(e)] = Len(execLog'[e]) - 1]_vars

\* Execution 1 has run to last() while execution 2 is at handler 1, where
\* handler 0 has called its next() twice.
C12_Witness ==
    /\ chainLen = 3
    /\ execLog[1] = <<0, 1, 2, 3>>
    /\ execResult[1][0] = <<"started">>
    /\ execLog[2] = <<0, 1>>
    /\ execResult[2][0] = <<"started", DuplicateAdvance>>
    /\ counterCell[CounterOf(1)] = 3
    /\ counterCell[CounterOf(2)] = 1

\* The fields the call gives from its own parameters.
OwnFields == {"next", "context", "client", "logger"}

\* C20 as stated: whatever fields initialArgs carries, the object handler f
\* is called with has the next() bound to f as its next, the parameters of
\* processMiddleware as its context, client and logger, and every other
\* field of initialArgs unchanged.
C20_AsStated ==
    \A f \in Handlers :
        Built(f)
        => /\ DOMAIN bundle[f] = (DOMAIN initialArgs) \cup OwnFields
           /\ bundle[f]["next"] = Capability(f)
           /\ bundle[f]["context"] = ContextParam
           /\ bundle[f]["client"] = ClientParam
           /\ bundle[f]["logger"] = LoggerParam
           /\ \A k \in (DOMAIN initialArgs) \ OwnFields :
                 bundle[f][k] = initialArgs[k]

====
